---- MODULE Spec2Model ----
(***************************************************************************)
(* winlock: DirLock, a directory lock built on the exclusive creation of a *)
(* lock file (winlock/lock.py).                                            *)
(*                                                                         *)
(* The model holds the filesystem (the lock files and the state of their   *)
(* directories), the descriptor table of every process, a clock, and for   *)
(* every DirLock instance its attributes and the position of the call      *)
(* that is running on it.  A call to acquire() or release() is several     *)
(* steps, one per system call, so that the calls of different instances    *)
(* interleave as they do between processes and threads.                    *)
(***************************************************************************)
EXTENDS Integers, Sequences, FiniteSets, TLC

(***************************************************************************)
(* Bounds of the model.                                                    *)
(***************************************************************************)
MaxTime == 3          \* longest time an acquire() is followed for
MaxDepth == 2         \* nesting of `with` blocks on one instance
NFd == 2              \* descriptors a process can have open
MaxEnv == 1           \* changes made to the filesystem from outside

Inst == {"a", "b"}                          \* DirLock instances alive at once
Proc == {"p1", "p2"}                        \* processes
Dirs == {<<"srv", "x">>}                    \* directory paths, by component
Timeouts == {0, 2}                          \* values of the timeout argument
Delays == {1}                               \* values of the delay argument

FdNums == 1..NFd

VARIABLES
    envSteps,   \* changes made to the filesystem from outside so far
    dirState,   \* directory -> "ok" | "missing" | "denied"
    disk,       \* lock file path -> who created the file that is there: an
                \* instance, Collected or Killed when that instance is gone,
                \* NoOne when there is no file
    fdt,        \* process -> descriptor -> the file it is open on: a path,
                \* Orphan for a file that has been removed, NoFile when closed
    life,       \* instance -> "none" | "live"
    proc,       \* instance -> the process it lives in
    directory,  \* self.directory
    lockfile,   \* self.lockfile
    timeout,    \* self.timeout
    delay,      \* self.delay
    is_locked,  \* self.is_locked
    fd,         \* self.fd, 0 while the attribute is not set
    pc,         \* instance -> position of the running call; "idle" between
                \* calls, "done" when a call has just ended
    call,       \* instance -> the method the caller invoked, while it runs
    depth,      \* instance -> number of `with` blocks the caller is inside
    exc,        \* instance -> failure of the body that __exit__ was called with
    el,         \* instance -> time.time() - start of the running acquire()
    nap,        \* instance -> time since the running acquire() went to sleep
    tries,      \* instance -> os.open calls of the running acquire() that failed
    sleeps,     \* instance -> time.sleep calls of the running acquire()
    last        \* instance -> the call that has just ended and what its
                \* caller sees of it

objVars == <<life, proc, directory, lockfile, timeout, delay, is_locked, fd>>
fsVars == <<envSteps, dirState, disk, fdt>>
ctlVars == <<pc, call, depth, exc, el, nap, tries, sleeps, last>>
vars == <<fsVars, objVars, ctlVars>>

(***************************************************************************)
(* Failures.  A failure is a record of the exception class and its detail: *)
(* the errno of an OSError, the message of a DirLockException.             *)
(***************************************************************************)
NoErr == [type |-> "None", detail |-> ""]
OSError(errno) == [type |-> "OSError", detail |-> errno]
DirLockException(msg) == [type |-> "DirLockException", detail |-> msg]
Unavailable == DirLockException("Could not acquire lock on {}")
TimedOut == DirLockException("Timeout occurred.")
BodyError == [type |-> "BodyError", detail |-> ""]

NoDir == <<>>
NoFile == [dir |-> NoDir, name |-> <<>>]
Orphan == [dir |-> NoDir, name |-> <<"(deleted)">>]
NoOne == ""
Collected == "collected"
Killed == "killed"

\* os.path.join(directory, os.path.split(directory)[1] + '.lock')
LockFilePath(d) == [dir |-> d, name |-> <<d[Len(d)], ".lock">>]

Paths == {LockFilePath(d) : d \in Dirs}

(***************************************************************************)
(* The operating system.                                                   *)
(***************************************************************************)
Exists(path) == disk[path] # NoOne
FreeFds(p) == {f \in FdNums : fdt[p][f] = NoFile}
Lowest(S) == CHOOSE x \in S : \A y \in S : x <= y

\* os.open without O_EXCL: a file that exists is opened
OpenErrnoNoExcl(p, path) ==
    IF FreeFds(p) = {} THEN "EMFILE"
    ELSE IF dirState[path.dir] = "missing" THEN "ENOENT"
    ELSE IF ~Exists(path) /\ dirState[path.dir] = "denied" THEN "EACCES"
    ELSE ""

\* an os.open that takes the place of a lock file whose creator was killed
OpenErrnoBreakingStale(p, path) ==
    IF FreeFds(p) = {} THEN "EMFILE"
    ELSE IF dirState[path.dir] = "missing" THEN "ENOENT"
    ELSE IF Exists(path) /\ disk[path] # Killed THEN "EEXIST"
    ELSE IF dirState[path.dir] = "denied" THEN "EACCES"
    ELSE ""

\* errno of os.open(path, O_CREAT|O_EXCL|O_RDWR) in process p, "" on success
OpenErrno(p, path) ==
    IF FreeFds(p) = {} THEN "EMFILE"
    ELSE IF dirState[path.dir] = "missing" THEN "ENOENT"
    ELSE IF Exists(path) THEN "EEXIST"
    ELSE IF dirState[path.dir] = "denied" THEN "EACCES"
    ELSE ""

\* errno of os.close(f) in process p
CloseErrno(p, f) == IF f \in FdNums /\ fdt[p][f] # NoFile THEN "" ELSE "EBADF"

\* errno of os.unlink(path)
UnlinkErrno(path) ==
    IF dirState[path.dir] = "missing" \/ ~Exists(path) THEN "ENOENT"
    ELSE IF dirState[path.dir] = "denied" THEN "EACCES"
    ELSE ""

\* the descriptor tables once the file at path is removed: the descriptors
\* open on it stay open, on a file that has no name any more
Orphaned(path) ==
    [p \in Proc |-> [f \in FdNums |-> IF fdt[p][f] = path THEN Orphan ELSE fdt[p][f]]]

\* the files once the instances of G are gone: theirs are the files of `how`
Left(G, how) == [q \in Paths |-> IF disk[q] \in G THEN how ELSE disk[q]]

(***************************************************************************)
(* What the instances hold.                                                *)
(***************************************************************************)
Live(i) == life[i] = "live"
\* the handle of i is an open descriptor on the lock file that is on disk
HoldsHandle(i) ==
    /\ Live(i)
    /\ fd[i] # 0
    /\ Exists(lockfile[i])
    /\ fdt[proc[i]][fd[i]] = lockfile[i]
\* i has the lock: it has set is_locked, the lock file on disk is the one it
\* created and its handle is open on it
Holds(i) == is_locked[i] /\ HoldsHandle(i) /\ disk[lockfile[i]] = i
\* the caller of i is between two calls
AtRest(i) == Live(i) /\ pc[i] = "idle"
\* an acquire() is running on i
Acquiring(i) == Live(i) /\ pc[i] \in {"acq_try", "acq_sleep"}
\* the acquire() running on i is in time.sleep
Sleeping(i) == Live(i) /\ pc[i] = "acq_sleep"
\* no process has started yet: no instance, no open descriptor (the processes
\* are alike, and the first instance is said to live in p1)
Unused ==
    /\ \A j \in Inst : ~Live(j)
    /\ \A p \in Proc, f \in FdNums : fdt[p][f] = NoFile

Init ==
    /\ envSteps = 0
    /\ dirState \in [Dirs -> {"ok", "missing", "denied"}]
    /\ disk = [q \in Paths |-> NoOne]
    /\ fdt = [p \in Proc |-> [f \in FdNums |-> NoFile]]
    /\ life = [i \in Inst |-> "none"]
    /\ proc = [i \in Inst |-> "p1"]
    /\ directory = [i \in Inst |-> NoDir]
    /\ lockfile = [i \in Inst |-> NoFile]
    /\ timeout = [i \in Inst |-> 0]
    /\ delay = [i \in Inst |-> 0]
    /\ is_locked = [i \in Inst |-> FALSE]
    /\ fd = [i \in Inst |-> 0]
    /\ pc = [i \in Inst |-> "idle"]
    /\ call = [i \in Inst |-> "none"]
    /\ depth = [i \in Inst |-> 0]
    /\ exc = [i \in Inst |-> NoErr]
    /\ el = [i \in Inst |-> 0]
    /\ nap = [i \in Inst |-> 0]
    /\ tries = [i \in Inst |-> 0]
    /\ sleeps = [i \in Inst |-> 0]
    /\ last = [i \in Inst |-> [op |-> "none", err |-> NoErr]]

(***************************************************************************)
(* DirLock.__init__                                                        *)
(***************************************************************************)
\* a constructor that acquires the lock when the lock file is not there
ConstructAcquiring(i) ==
    /\ life[i] = "none"
    /\ pc[i] = "idle"
    /\ \E p \in Proc, d \in Dirs, t \in Timeouts, dl \in Delays :
        /\ Unused => p = "p1"
        /\ proc' = [proc EXCEPT ![i] = p]
        /\ directory' = [directory EXCEPT ![i] = d]
        /\ lockfile' = [lockfile EXCEPT ![i] = LockFilePath(d)]
        /\ timeout' = [timeout EXCEPT ![i] = t]
        /\ delay' = [delay EXCEPT ![i] = dl]
        /\ LET made == OpenErrno(p, LockFilePath(d)) = ""
               f == IF made THEN Lowest(FreeFds(p)) ELSE 0
           IN  /\ is_locked' = [is_locked EXCEPT ![i] = made]
               /\ fd' = [fd EXCEPT ![i] = f]
               /\ disk' = IF made THEN [disk EXCEPT ![LockFilePath(d)] = i] ELSE disk
               /\ fdt' = IF made THEN [fdt EXCEPT ![p][f] = LockFilePath(d)] ELSE fdt
    /\ life' = [life EXCEPT ![i] = "live"]
    /\ pc' = [pc EXCEPT ![i] = "done"]
    /\ last' = [last EXCEPT ![i] = [op |-> "init", err |-> NoErr]]
    /\ UNCHANGED <<envSteps, dirState, call, depth, exc, el, nap, tries, sleeps>>

Construct(i) ==
    /\ life[i] = "none"
    /\ pc[i] = "idle"
    /\ \E p \in Proc, d \in Dirs, t \in Timeouts, dl \in Delays :
        /\ Unused => p = "p1"
        /\ proc' = [proc EXCEPT ![i] = p]
        /\ directory' = [directory EXCEPT ![i] = d]
        /\ lockfile' = [lockfile EXCEPT ![i] = LockFilePath(d)]
        /\ timeout' = [timeout EXCEPT ![i] = t]
        /\ delay' = [delay EXCEPT ![i] = dl]
    /\ is_locked' = [is_locked EXCEPT ![i] = FALSE]
    /\ life' = [life EXCEPT ![i] = "live"]
    /\ pc' = [pc EXCEPT ![i] = "done"]
    /\ last' = [last EXCEPT ![i] = [op |-> "init", err |-> NoErr]]
    /\ UNCHANGED <<fsVars, fd, call, depth, exc, el, nap, tries, sleeps>>

\* the caller goes on after the call that has ended
Continue(i) ==
    /\ pc[i] = "done"
    /\ pc' = [pc EXCEPT ![i] = "idle"]
    /\ last' = [last EXCEPT ![i] = [op |-> "none", err |-> NoErr]]
    /\ UNCHANGED <<fsVars, objVars, call, depth, exc, el, nap, tries, sleeps>>

(***************************************************************************)
(* The end of a call: method c, which the caller invoked on i, returns     *)
(* (err = NoErr) or raises err.                                            *)
(*   acquire, release: the caller sees the result.                         *)
(*   enter: `with` runs the body when __enter__ returned; when it raised,  *)
(*          neither the body nor __exit__ runs.                            *)
(*   exit:  __exit__ returns None, so the failure of the body goes on to   *)
(*          the caller; a failure raised by __exit__ itself takes its      *)
(*          place.                                                         *)
(*   del:   a failure raised by __del__ is printed and dropped; the        *)
(*          instance is gone.                                              *)
(***************************************************************************)
Seen(c, bodyErr, err) ==
    CASE c = "exit" /\ err = NoErr -> bodyErr
      [] c = "del" -> NoErr
      [] OTHER -> err

\* the caller's side of the end of the call
Finish(i, c, bodyErr, err) ==
    /\ pc' = [pc EXCEPT ![i] = "done"]
    /\ call' = [call EXCEPT ![i] = "none"]
    /\ depth' = [depth EXCEPT ![i] =
            CASE c = "enter" /\ err = NoErr -> @ + 1
              [] c = "exit" -> @ - 1
              [] OTHER -> @]
    /\ exc' = [exc EXCEPT ![i] = NoErr]
    /\ el' = [el EXCEPT ![i] = 0]
    /\ nap' = [nap EXCEPT ![i] = 0]
    /\ tries' = [tries EXCEPT ![i] = 0]
    /\ sleeps' = [sleeps EXCEPT ![i] = 0]
    /\ last' = [last EXCEPT ![i] = [op |-> c, err |-> Seen(c, bodyErr, err)]]

\* the instance's side of the end of the call: is_locked and fd as the call
\* leaves them; after __del__ the instance is gone, and a lock file it has
\* not deleted is left behind
Gone(i, c, locked, f) ==
    IF c = "del"
    THEN /\ life' = [life EXCEPT ![i] = "none"]
         /\ proc' = [proc EXCEPT ![i] = "p1"]
         /\ directory' = [directory EXCEPT ![i] = NoDir]
         /\ lockfile' = [lockfile EXCEPT ![i] = NoFile]
         /\ timeout' = [timeout EXCEPT ![i] = 0]
         /\ delay' = [delay EXCEPT ![i] = 0]
         /\ is_locked' = [is_locked EXCEPT ![i] = FALSE]
         /\ fd' = [fd EXCEPT ![i] = 0]
         /\ disk' = Left({i}, Collected)
    ELSE /\ is_locked' = [is_locked EXCEPT ![i] = locked]
         /\ fd' = [fd EXCEPT ![i] = f]
         /\ UNCHANGED <<life, proc, directory, lockfile, timeout, delay, disk>>

(***************************************************************************)
(* DirLock.acquire                                                         *)
(***************************************************************************)
\* start = time.time(), then the loop
AcquireBegin(i, c) ==
    /\ el' = [el EXCEPT ![i] = 0]
    /\ nap' = [nap EXCEPT ![i] = 0]
    /\ tries' = [tries EXCEPT ![i] = 0]
    /\ sleeps' = [sleeps EXCEPT ![i] = 0]
    /\ pc' = [pc EXCEPT ![i] = "acq_try"]
    /\ call' = [call EXCEPT ![i] = c]
    /\ UNCHANGED <<fsVars, objVars, depth, exc, last>>

\* every failure of os.open taken for contention
NotContentionNever(e) == FALSE
\* err.errno != errno.EEXIST
NotContention(e) == e # "EEXIST"

\* the test of a zero timeout left out
NoRetryNever(i) == FALSE
\* not self.timeout
NoRetry(i) == timeout[i] = 0

\* a loop without the test of the elapsed time
ExpiredNever(i) == FALSE
\* > for >=
ExpiredLate(i) == el[i] > timeout[i]
\* (time.time() - start) >= self.timeout
Expired(i) == el[i] >= timeout[i]

\* self.fd = os.open(...); self.is_locked = True; break
TryCreated(i) ==
    LET f == Lowest(FreeFds(proc[i]))
    IN  /\ disk' = [disk EXCEPT ![lockfile[i]] = i]
        /\ fdt' = [fdt EXCEPT ![proc[i]][f] = lockfile[i]]
        /\ fd' = [fd EXCEPT ![i] = f]
        /\ is_locked' = [is_locked EXCEPT ![i] = TRUE]
        /\ Finish(i, call[i], NoErr, NoErr)
        /\ UNCHANGED <<envSteps, dirState, life, proc, directory, lockfile,
                       timeout, delay>>

\* a failing acquire() that clears the lock file on its way out
TryRaiseUnlinking(i, err) ==
    /\ Finish(i, call[i], NoErr, err)
    /\ disk' = [disk EXCEPT ![lockfile[i]] = NoOne]
    /\ fdt' = Orphaned(lockfile[i])
    /\ UNCHANGED <<envSteps, dirState, objVars>>

\* a raise out of the loop
TryRaise(i, err) ==
    /\ Finish(i, call[i], NoErr, err)
    /\ UNCHANGED <<fsVars, objVars>>

\* time.sleep(self.delay)
TrySleep(i) ==
    /\ pc' = [pc EXCEPT ![i] = "acq_sleep"]
    /\ nap' = [nap EXCEPT ![i] = 0]
    /\ tries' = [tries EXCEPT ![i] = @ + 1]
    /\ sleeps' = [sleeps EXCEPT ![i] = @ + 1]
    /\ UNCHANGED <<fsVars, objVars, call, depth, exc, el, last>>

\* one pass of the loop body
Try(i) ==
    /\ Live(i)
    /\ pc[i] = "acq_try"
    /\ LET e == OpenErrno(proc[i], lockfile[i])
       IN  IF e = "" THEN TryCreated(i)
           ELSE IF NotContention(e) THEN TryRaise(i, OSError(e))
           ELSE IF NoRetry(i) THEN TryRaise(i, Unavailable)
           ELSE IF Expired(i) THEN TryRaise(i, TimedOut)
           ELSE TrySleep(i)

\* the sleep is over: it lasts delay or longer
Wake(i) ==
    /\ Live(i)
    /\ pc[i] = "acq_sleep"
    /\ nap[i] >= delay[i]
    /\ pc' = [pc EXCEPT ![i] = "acq_try"]
    /\ UNCHANGED <<fsVars, objVars, call, depth, exc, el, nap, tries, sleeps, last>>

\* a reentrant acquire(): on a locked instance it returns at once
AcquireReentrant(i) ==
    /\ AtRest(i)
    /\ depth[i] = 0
    /\ IF is_locked[i]
       THEN /\ Finish(i, "acquire", NoErr, NoErr)
            /\ UNCHANGED <<fsVars, objVars>>
       ELSE AcquireBegin(i, "acquire")

\* acquire() called by the code outside the `with` blocks
Acquire(i) ==
    /\ AtRest(i)
    /\ depth[i] = 0
    /\ AcquireBegin(i, "acquire")

(***************************************************************************)
(* DirLock.release                                                         *)
(***************************************************************************)
\* release() without its test of is_locked
ReleaseBeginUnguarded(i, c, bodyErr) ==
    /\ pc' = [pc EXCEPT ![i] = "rel_close"]
    /\ call' = [call EXCEPT ![i] = c]
    /\ exc' = [exc EXCEPT ![i] = bodyErr]
    /\ UNCHANGED <<fsVars, objVars, depth, el, nap, tries, sleeps, last>>

\* if self.is_locked:
ReleaseBegin(i, c, bodyErr) ==
    IF is_locked[i]
    THEN /\ pc' = [pc EXCEPT ![i] = "rel_close"]
         /\ call' = [call EXCEPT ![i] = c]
         /\ exc' = [exc EXCEPT ![i] = bodyErr]
         /\ UNCHANGED <<fsVars, objVars, depth, el, nap, tries, sleeps, last>>
    ELSE /\ Finish(i, c, bodyErr, NoErr)
         /\ Gone(i, c, is_locked[i], fd[i])
         /\ UNCHANGED <<envSteps, dirState, fdt>>

\* a raise out of release()
RelRaise(i, err) ==
    /\ Finish(i, call[i], exc[i], err)
    /\ Gone(i, call[i], is_locked[i], fd[i])
    /\ UNCHANGED <<envSteps, dirState, fdt>>

\* a release() that deletes the lock file before it closes the handle
RelCloseUnlinking(i) ==
    /\ Live(i)
    /\ pc[i] = "rel_close"
    /\ disk' = [disk EXCEPT ![lockfile[i]] = NoOne]
    /\ fdt' = Orphaned(lockfile[i])
    /\ pc' = [pc EXCEPT ![i] = "rel_unlink"]
    /\ UNCHANGED <<envSteps, dirState, objVars, call, depth, exc, el, nap,
                   tries, sleeps, last>>

\* os.close(self.fd)
RelClose(i) ==
    /\ Live(i)
    /\ pc[i] = "rel_close"
    /\ LET e == CloseErrno(proc[i], fd[i])
       IN  IF e = ""
           THEN /\ fdt' = [fdt EXCEPT ![proc[i]][fd[i]] = NoFile]
                /\ pc' = [pc EXCEPT ![i] = "rel_unlink"]
                /\ UNCHANGED <<envSteps, dirState, disk, objVars, call, depth,
                               exc, el, nap, tries, sleeps, last>>
           ELSE RelRaise(i, OSError(e))

\* release() without its os.unlink
RelUnlinkSkipped(i) ==
    /\ Live(i)
    /\ pc[i] = "rel_unlink"
    /\ pc' = [pc EXCEPT ![i] = "rel_clear"]
    /\ UNCHANGED <<fsVars, objVars, call, depth, exc, el, nap, tries, sleeps, last>>

\* os.unlink(self.lockfile)
RelUnlink(i) ==
    /\ Live(i)
    /\ pc[i] = "rel_unlink"
    /\ LET e == UnlinkErrno(lockfile[i])
       IN  IF e = ""
           THEN /\ disk' = [disk EXCEPT ![lockfile[i]] = NoOne]
                /\ fdt' = Orphaned(lockfile[i])
                /\ pc' = [pc EXCEPT ![i] = "rel_clear"]
                /\ UNCHANGED <<envSteps, dirState, objVars, call, depth, exc,
                               el, nap, tries, sleeps, last>>
           ELSE RelRaise(i, OSError(e))

\* self.is_locked = False.  self.fd keeps the number of the closed descriptor,
\* which nothing reads before os.open sets it again: it counts as unset
RelClear(i) ==
    /\ Live(i)
    /\ pc[i] = "rel_clear"
    /\ Finish(i, call[i], exc[i], NoErr)
    /\ Gone(i, call[i], FALSE, 0)
    /\ UNCHANGED <<envSteps, dirState, fdt>>

\* release() called by the code outside the `with` blocks
Release(i) ==
    /\ AtRest(i)
    /\ depth[i] = 0
    /\ ReleaseBegin(i, "release", NoErr)

(***************************************************************************)
(* The `with` statement: DirLock.__enter__, the body, DirLock.__exit__     *)
(***************************************************************************)
\* an __enter__ that calls acquire() whatever is_locked
EnterAcquiring(i) ==
    /\ AtRest(i)
    /\ depth[i] < MaxDepth
    /\ AcquireBegin(i, "enter")

\* if not self.is_locked: self.acquire() / return self
Enter(i) ==
    /\ AtRest(i)
    /\ depth[i] < MaxDepth
    /\ IF ~is_locked[i]
       THEN AcquireBegin(i, "enter")
       ELSE /\ Finish(i, "enter", NoErr, NoErr)
            /\ UNCHANGED <<fsVars, objVars>>

\* the body of the innermost `with` block ends: it finished (bodyErr = NoErr)
\* or raised bodyErr, and __exit__ is called with it
Exit(i) ==
    /\ AtRest(i)
    /\ depth[i] > 0
    /\ \E bodyErr \in {NoErr, BodyError} :
        exc' = [exc EXCEPT ![i] = bodyErr]
    /\ pc' = [pc EXCEPT ![i] = "exit"]
    /\ call' = [call EXCEPT ![i] = "exit"]
    /\ UNCHANGED <<fsVars, objVars, depth, el, nap, tries, sleeps, last>>

\* an __exit__ that does nothing
ExitTestNoRelease(i) ==
    /\ Live(i)
    /\ pc[i] = "exit"
    /\ Finish(i, "exit", exc[i], NoErr)
    /\ UNCHANGED <<fsVars, objVars>>

\* if self.is_locked: self.release()
ExitTest(i) ==
    /\ Live(i)
    /\ pc[i] = "exit"
    /\ IF is_locked[i]
       THEN ReleaseBegin(i, "exit", exc[i])
       ELSE /\ Finish(i, "exit", exc[i], NoErr)
            /\ UNCHANGED <<fsVars, objVars>>

(***************************************************************************)
(* DirLock.__del__: the instance is collected once nothing refers to it,   *)
(* so not inside a `with` block nor during a call.                         *)
(***************************************************************************)
\* a class without __del__: the instance goes and nothing is released
DelNoRelease(i) ==
    /\ AtRest(i)
    /\ depth[i] = 0
    /\ Finish(i, "del", NoErr, NoErr)
    /\ Gone(i, "del", FALSE, 0)
    /\ UNCHANGED <<envSteps, dirState, fdt>>

\* a __del__ that deletes the lock file whatever is_locked
DelUnlinking(i) ==
    /\ AtRest(i)
    /\ depth[i] = 0
    /\ pc' = [pc EXCEPT ![i] = "rel_unlink"]
    /\ call' = [call EXCEPT ![i] = "del"]
    /\ UNCHANGED <<fsVars, objVars, depth, exc, el, nap, tries, sleeps, last>>

Del(i) ==
    /\ AtRest(i)
    /\ depth[i] = 0
    /\ ReleaseBegin(i, "del", NoErr)

(***************************************************************************)
(* The environment.                                                        *)
(***************************************************************************)
\* time passes.  os.open and the tests that follow it take no time: all the
\* time an acquire() takes is spent in time.sleep, which lasts delay or longer
Tick ==
    /\ \E i \in Inst : Sleeping(i)
    /\ \A i \in Inst : Acquiring(i) => Sleeping(i) /\ el[i] < MaxTime
    /\ el' = [i \in Inst |-> IF Sleeping(i) THEN el[i] + 1 ELSE el[i]]
    /\ nap' = [i \in Inst |-> IF Sleeping(i) THEN nap[i] + 1 ELSE nap[i]]
    /\ UNCHANGED <<fsVars, objVars, pc, call, depth, exc, tries, sleeps, last>>

\* process p ends without running any cleanup: the system closes its
\* descriptors, its instances are gone, the files stay
InProc(i, p) == Live(i) /\ proc[i] = p

Kill(p) ==
    /\ \E i \in Inst : InProc(i, p)
    /\ fdt' = [fdt EXCEPT ![p] = [f \in FdNums |-> NoFile]]
    /\ disk' = Left({i \in Inst : InProc(i, p)}, Killed)
    /\ life' = [i \in Inst |-> IF InProc(i, p) THEN "none" ELSE life[i]]
    /\ proc' = [i \in Inst |-> IF InProc(i, p) THEN "p1" ELSE proc[i]]
    /\ directory' = [i \in Inst |-> IF InProc(i, p) THEN NoDir ELSE directory[i]]
    /\ lockfile' = [i \in Inst |-> IF InProc(i, p) THEN NoFile ELSE lockfile[i]]
    /\ timeout' = [i \in Inst |-> IF InProc(i, p) THEN 0 ELSE timeout[i]]
    /\ delay' = [i \in Inst |-> IF InProc(i, p) THEN 0 ELSE delay[i]]
    /\ is_locked' = [i \in Inst |-> IF InProc(i, p) THEN FALSE ELSE is_locked[i]]
    /\ fd' = [i \in Inst |-> IF InProc(i, p) THEN 0 ELSE fd[i]]
    /\ pc' = [i \in Inst |-> IF InProc(i, p) THEN "done" ELSE pc[i]]
    /\ call' = [i \in Inst |-> IF InProc(i, p) THEN "none" ELSE call[i]]
    /\ depth' = [i \in Inst |-> IF InProc(i, p) THEN 0 ELSE depth[i]]
    /\ exc' = [i \in Inst |-> IF InProc(i, p) THEN NoErr ELSE exc[i]]
    /\ el' = [i \in Inst |-> IF InProc(i, p) THEN 0 ELSE el[i]]
    /\ nap' = [i \in Inst |-> IF InProc(i, p) THEN 0 ELSE nap[i]]
    /\ tries' = [i \in Inst |-> IF InProc(i, p) THEN 0 ELSE tries[i]]
    /\ sleeps' = [i \in Inst |-> IF InProc(i, p) THEN 0 ELSE sleeps[i]]
    /\ last' = [i \in Inst |-> IF InProc(i, p)
                               THEN [op |-> "kill", err |-> NoErr] ELSE last[i]]
    /\ UNCHANGED <<envSteps, dirState>>

\* directory d changes: it loses or gets back its write permission, or it is
\* removed (which takes an empty directory) or made again
DirChange(d) ==
    /\ envSteps < MaxEnv
    /\ envSteps' = envSteps + 1
    /\ \E st \in {"ok", "missing", "denied"} \ {dirState[d]} :
        /\ st = "missing" => ~Exists(LockFilePath(d))
        /\ dirState' = [dirState EXCEPT ![d] = st]
    /\ UNCHANGED <<disk, fdt, objVars, ctlVars>>

\* something that is no DirLock removes the lock file of directory d
ExternalRemove(d) ==
    /\ envSteps < MaxEnv
    /\ envSteps' = envSteps + 1
    /\ Exists(LockFilePath(d))
    /\ disk' = [disk EXCEPT ![LockFilePath(d)] = NoOne]
    /\ fdt' = Orphaned(LockFilePath(d))
    /\ UNCHANGED <<dirState, objVars, ctlVars>>

Next ==
    \/ \E i \in Inst : Construct(i)
    \/ \E i \in Inst : Continue(i)
    \/ \E i \in Inst : Acquire(i)
    \/ \E i \in Inst : Try(i)
    \/ \E i \in Inst : Wake(i)
    \/ \E i \in Inst : Release(i)
    \/ \E i \in Inst : RelClose(i)
    \/ \E i \in Inst : RelUnlink(i)
    \/ \E i \in Inst : RelClear(i)
    \/ \E i \in Inst : Enter(i)
    \/ \E i \in Inst : Exit(i)
    \/ \E i \in Inst : ExitTest(i)
    \/ \E i \in Inst : Del(i)
    \/ \E p \in Proc : Kill(p)
    \/ Tick

DirNext == \E d \in Dirs : DirChange(d)

EnvNext ==
    \/ \E d \in Dirs : DirChange(d)
    \/ \E d \in Dirs : ExternalRemove(d)

\* the instances and the clock, on a filesystem nothing else touches
Spec == Init /\ [][Next]_vars

\* the same with directories that change under the instances
SpecDir == Init /\ [][Next \/ DirNext]_vars

\* the same with lock files that something else removes, too
SpecEnv == Init /\ [][Next \/ EnvNext]_vars

\* Spec with a scheduler and a clock: the process of an instance gets to run
\* its next os.open, a time.sleep ends once its delay has passed, and time
\* goes on however many steps the processes take
Fairness ==
    /\ SF_vars(Tick)
    /\ \A i \in Inst : WF_vars(Try(i)) /\ WF_vars(Wake(i))

SpecLive == Init /\ [][Next]_vars /\ Fairness

(***************************************************************************)
(* Properties.                                                             *)
(***************************************************************************)
\* this step is a pass of the loop of acquire() on i that leaves the loop
TryEnds(i) ==
    /\ Live(i)
    /\ pc[i] = "acq_try"
    /\ life'[i] = "live"
    /\ pc'[i] = "done"

\* C1: mutual exclusion.  While an instance holds the lock (it has acquired
\* and its handle is open on the lock file), no other instance on the same
\* directory has acquired, but for one whose release() has already deleted
\* the lock file and has only is_locked left to clear: an acquire() succeeds
\* only after the holder's release() has deleted the file.
C1_MutualExclusion ==
    \A i, j \in Inst :
        (i # j /\ Live(i) /\ Live(j) /\ lockfile[i] = lockfile[j]
              /\ Holds(j) /\ is_locked[i])
            => pc[i] = "rel_clear" /\ ~Holds(i)

\* one instance holds the lock and another one, which has tried and failed,
\* sleeps in acquire()
C1_Contended ==
    \E i, j \in Inst :
        /\ i # j /\ Live(i) /\ Live(j) /\ lockfile[i] = lockfile[j]
        /\ Holds(j)
        /\ Sleeping(i) /\ tries[i] >= 1

\* C2 as stated: an acquire() with a timeout T > 0 that fails on contention
\* fails with the timeout error, at an elapsed time >= T and < T + delay.
C2_TimeoutBound ==
    [][\A i \in Inst :
        (TryEnds(i) /\ timeout[i] > 0 /\ last'[i].err.type = "DirLockException")
            => /\ last'[i].err = TimedOut
               /\ el[i] >= timeout[i]
               /\ el[i] < timeout[i] + delay[i]]_vars

\* C2, amended: an acquire() with a timeout T > 0 that fails on contention
\* fails with the timeout error at an elapsed time >= T, never before T, at
\* the first test of the elapsed time that is made at T or later: the test
\* before it, one sleep earlier, was made before T.  The sleep lasts delay or
\* longer, so the elapsed time is < T + the length of the last sleep.
C2_TimeoutBoundAmended ==
    [][\A i \in Inst :
        (TryEnds(i) /\ timeout[i] > 0 /\ last'[i].err.type = "DirLockException")
            => /\ last'[i].err = TimedOut
               /\ el[i] >= timeout[i]
               /\ el[i] - nap[i] < timeout[i]
               /\ nap[i] >= delay[i]]_vars

\* an acquire() with a timeout > 0 has just failed with the timeout error
C2_TimedOut ==
    \E i \in Inst :
        /\ Live(i) /\ pc[i] = "done" /\ timeout[i] > 0
        /\ last[i].op = "acquire" /\ last[i].err = TimedOut
        /\ Exists(lockfile[i])

\* C3: zero-timeout fast fail.  With timeout = 0, a pass of the loop that
\* finds the lock file fails with the lock-unavailable error; it is the first
\* os.open of the call, no sleep came before it and none follows, and the
\* instance and the filesystem are as they were.
C3_ZeroTimeoutFastFail ==
    [][\A i \in Inst :
        (Live(i) /\ pc[i] = "acq_try" /\ timeout[i] = 0
              /\ OpenErrno(proc[i], lockfile[i]) = "EEXIST"
              /\ life'[i] = "live" /\ <<pc[i], tries[i], last[i]>>' # <<pc[i], tries[i], last[i]>>)
            => /\ pc'[i] = "done"
               /\ last'[i].err = Unavailable
               /\ tries[i] = 0 /\ sleeps[i] = 0
               /\ is_locked'[i] = is_locked[i]
               /\ fd'[i] = fd[i]
               /\ UNCHANGED fsVars]_vars

\* an acquire() on an unlocked instance with timeout = 0 has just failed with
\* the lock-unavailable error
C3_FailedFast ==
    \E i \in Inst :
        /\ Live(i) /\ pc[i] = "done" /\ timeout[i] = 0 /\ ~is_locked[i]
        /\ last[i].op = "acquire" /\ last[i].err = Unavailable
        /\ Exists(lockfile[i])

\* C4: a failure of os.open other than `file exists` ends acquire() at once,
\* whatever the timeout: the pass of the loop that meets it raises it as an
\* OSError, which is no DirLockException, without sleeping or trying again,
\* and leaves the instance and the filesystem as they were.
C4_IoErrorBypassesRetry ==
    [][\A i \in Inst :
        (Live(i) /\ pc[i] = "acq_try"
              /\ OpenErrno(proc[i], lockfile[i]) \notin {"", "EEXIST"}
              /\ life'[i] = "live" /\ <<pc[i], tries[i], last[i]>>' # <<pc[i], tries[i], last[i]>>)
            => /\ pc'[i] = "done"
               /\ last'[i].err = OSError(OpenErrno(proc[i], lockfile[i]))
               /\ last'[i].err.type # "DirLockException"
               /\ sleeps'[i] = 0
               /\ is_locked'[i] = is_locked[i]
               /\ UNCHANGED fsVars]_vars

\* two acquire() calls have just failed with an OSError, one on an instance
\* with timeout = 0 and one on an instance with a timeout > 0
C4_IoErrors ==
    \E i, j \in Inst :
        /\ Live(i) /\ pc[i] = "done" /\ timeout[i] = 0
        /\ last[i].op = "acquire" /\ last[i].err.type = "OSError"
        /\ Live(j) /\ pc[j] = "done" /\ timeout[j] > 0
        /\ last[j].op = "acquire" /\ last[j].err.type = "OSError"

\* this step ends the call of method c that runs release() on i
ReleaseEnds(i, c) ==
    /\ Live(i)
    /\ call[i] = c
    /\ pc[i] \in {"exit", "rel_close", "rel_unlink", "rel_clear"}
    /\ pc'[i] = "done"
    /\ last'[i].op = c

\* C5: cleanup on scope exit.  When the body of a `with` block raised, at the
\* end of the block is_locked is false, the lock file the instance created
\* no longer exists (a lock file found at its path is one another instance
\* has created since) and the caller sees the failure of the body.
C5_CleanupOnScopeExit ==
    [][\A i \in Inst :
        (ReleaseEnds(i, "exit") /\ exc[i] = BodyError)
            => /\ ~is_locked'[i]
               /\ disk'[lockfile[i]] # i
               /\ disk'[lockfile[i]] # NoOne
                    => \E j \in Inst \ {i} : disk[lockfile[i]] \in {j, Killed}
               /\ last'[i].err = BodyError]_vars

\* the outermost `with` block of an instance has just ended on a failure of
\* its body: the instance is unlocked, there is no lock file, the caller has
\* the failure
C5_BodyFailed ==
    \E i \in Inst :
        /\ Live(i) /\ pc[i] = "done" /\ depth[i] = 0
        /\ last[i] = [op |-> "exit", err |-> BodyError]
        /\ ~is_locked[i]
        /\ ~Exists(lockfile[i])

\* C6: the cleanup path never raises.  What the caller sees at the end of a
\* `with` block, or of the collection of an instance, is never a failure of
\* release(): it is the failure of the body, or nothing.
C6_CleanupNeverRaises ==
    \A i \in Inst :
        (pc[i] = "done" /\ last[i].op \in {"exit", "del"})
            => last[i].err \in {NoErr, BodyError}

\* C7: between two calls, an instance whose is_locked is true has its lock
\* file on disk and a handle that is an open descriptor on it.
C7_LockedImpliesFileAndHandle ==
    \A i \in Inst :
        (Live(i) /\ pc[i] \in {"idle", "done"} /\ is_locked[i])
            => Exists(lockfile[i]) /\ HoldsHandle(i)

\* every acquire() made so far on the lock file of i has been followed by
\* its release()
AllReleased(i) ==
    /\ dirState[directory[i]] = "ok"
    /\ disk[lockfile[i]] \notin {Killed, Collected}
    /\ \A k \in Inst : Live(k) /\ lockfile[k] = lockfile[i] => ~is_locked[k]

\* C8: round trip.  release() on an instance that has acquired ends with
\* is_locked false and the lock file of the instance deleted; and once every
\* acquire() has been followed by its release(), an acquire() that starts, on
\* the same or another instance, succeeds at its first os.open, without
\* sleeping.
C8_RoundTrip ==
    [][\A i \in Inst :
        /\ ReleaseEnds(i, "release")
              => /\ ~is_locked'[i]
                 /\ disk'[lockfile[i]] # i
                 /\ last'[i].err = NoErr
        /\ (Live(i) /\ pc[i] = "acq_try" /\ tries[i] = 0 /\ AllReleased(i)
              /\ life'[i] = "live" /\ <<pc[i], tries[i], last[i]>>' # <<pc[i], tries[i], last[i]>>)
              => /\ pc'[i] = "done"
                 /\ last'[i] = [op |-> call[i], err |-> NoErr]
                 /\ is_locked'[i]
                 /\ disk'[lockfile[i]] = i]_vars

\* the release() of an instance that had acquired has deleted the lock file,
\* and another instance has acquired since, at once
C8_Reacquired ==
    \E i, j \in Inst :
        /\ i # j /\ Live(i) /\ Live(j) /\ lockfile[i] = lockfile[j]
        /\ call[i] = "release" /\ pc[i] = "rel_clear"
        /\ pc[j] = "done" /\ last[j] = [op |-> "acquire", err |-> NoErr]
        /\ Holds(j)

\* C9: idempotent release.  release() on an unlocked instance, called by the
\* caller or by __del__, ends at once without a failure and changes neither
\* the filesystem, a lock file another instance holds included, nor (when
\* the instance stays) the instance.
C9_IdempotentRelease ==
    [][\A i \in Inst : \A c \in {"release", "del"} :
        (Live(i) /\ pc[i] = "idle" /\ ~is_locked[i]
              /\ (call'[i] = c \/ last'[i].op = c))
            => /\ pc'[i] = "done"
               /\ last'[i] = [op |-> c, err |-> NoErr]
               /\ UNCHANGED fsVars
               /\ c = "release" => UNCHANGED objVars]_vars

\* release() has just ended on an unlocked instance while another instance
\* holds the lock
C9_ReleasedUnlocked ==
    \E i, j \in Inst :
        /\ i # j /\ Live(i) /\ Live(j) /\ lockfile[i] = lockfile[j]
        /\ pc[i] = "done" /\ last[i] = [op |-> "release", err |-> NoErr]
        /\ ~is_locked[i]
        /\ pc[j] = "idle" /\ Holds(j)

\* C10: cleanup on destruction.  No instance that is collected leaves the
\* lock file it created behind: __del__ has released it, and the directory
\* can be locked again.
C10_DestructorReleases ==
    \A q \in Paths : disk[q] # Collected

\* an instance that holds the lock is being collected: its __del__ has
\* deleted the lock file, and another instance has acquired since
C10_CollectedThenAcquired ==
    \E i, j \in Inst :
        /\ i # j /\ Live(i) /\ Live(j) /\ lockfile[i] = lockfile[j]
        /\ call[i] = "del" /\ pc[i] = "rel_clear"
        /\ pc[j] = "done" /\ last[j] = [op |-> "acquire", err |-> NoErr]
        /\ Holds(j)

\* this step is a step of the call running on i, and i stays
StepOf(i) ==
    /\ Live(i)
    /\ life'[i] = "live"
    /\ <<pc[i], tries[i], last[i]>>' # <<pc[i], tries[i], last[i]>>

\* C11: a failed acquisition leaves the instance unlocked.  No step of an
\* acquire() on an unlocked instance that does not create the lock file
\* changes is_locked, the handle or the filesystem, and when the call ends in
\* a failure is_locked is false.  is_locked becomes true only in the step of
\* acquire() whose os.open succeeds, which ends the call without a failure,
\* and becomes false only in the last step of release().
C11_FailedAcquireFrame ==
    [][\A i \in Inst :
        /\ (StepOf(i) /\ Acquiring(i) /\ ~is_locked[i]
              /\ ~(pc'[i] = "done" /\ last'[i].err = NoErr))
              => /\ ~is_locked'[i]
                 /\ fd'[i] = fd[i]
                 /\ UNCHANGED fsVars
        /\ (TryEnds(i) /\ ~is_locked[i] /\ last'[i].err # NoErr)
              => /\ last'[i].err \in {Unavailable, TimedOut}
                        \cup {OSError(e) : e \in {"ENOENT", "EACCES", "EMFILE"}}
                 /\ ~is_locked'[i]
        /\ (Live(i) /\ ~is_locked[i] /\ is_locked'[i])
              => /\ TryEnds(i)
                 /\ last'[i] \in {[op |-> c, err |-> NoErr] : c \in {"acquire", "enter"}}
                 /\ OpenErrno(proc[i], lockfile[i]) = ""
        /\ (Live(i) /\ is_locked[i] /\ life'[i] = "live" /\ ~is_locked'[i])
              => /\ pc[i] = "rel_clear"
                 /\ pc'[i] = "done"
                 /\ last'[i].op \in {"release", "exit"}]_vars

\* an acquire() has just ended on its timeout, the instance is unlocked, and
\* the lock file is still the one of the instance that holds the lock
C11_FailedAndUnlocked ==
    \E i, j \in Inst :
        /\ i # j /\ Live(i) /\ Live(j) /\ lockfile[i] = lockfile[j]
        /\ pc[i] = "done" /\ last[i] = [op |-> "acquire", err |-> TimedOut]
        /\ ~is_locked[i]
        /\ Holds(j)

\* C12: stale lock.  When the process of a holder is killed the lock file
\* stays on disk, and from then on it stays for ever: no acquire() on that
\* directory succeeds, and each one that ends, ends in the unavailable or
\* the timeout failure with the instance unlocked.
C12_StaleLock ==
    [][/\ \A i \in Inst :
            (Holds(i) /\ life'[i] = "none" /\ last'[i].op = "kill")
                => disk'[lockfile[i]] = Killed
       /\ \A q \in Paths :
            disk[q] = Killed
                => /\ disk'[q] = Killed
                   /\ \A i \in Inst :
                        (TryEnds(i) /\ lockfile[i] = q)
                            => /\ last'[i].err =
                                    IF timeout[i] = 0 THEN Unavailable ELSE TimedOut
                               /\ ~is_locked'[i]]_vars

\* the lock file is the one of a holder that was killed, and an acquire() on
\* it has just ended on its timeout
C12_StaleTimedOut ==
    \E i \in Inst :
        /\ Live(i) /\ pc[i] = "done"
        /\ disk[lockfile[i]] = Killed
        /\ last[i] = [op |-> "acquire", err |-> TimedOut]
        /\ ~is_locked[i]

\* C13: construction has no side effects.  The step that constructs an
\* instance changes nothing of the filesystem, cannot fail, and leaves the
\* new instance unlocked, with the lock file path made of the directory and
\* of its last component, whether the lock file exists or not, whatever the
\* state of the directory.
C13_ConstructionNoSideEffects ==
    [][\A i \in Inst :
        (life[i] = "none" /\ life'[i] = "live")
            => /\ UNCHANGED fsVars
               /\ ~is_locked'[i]
               /\ fd'[i] = 0
               /\ depth'[i] = 0
               /\ lockfile'[i] = LockFilePath(directory'[i])
               /\ pc'[i] = "done"
               /\ last'[i] = [op |-> "init", err |-> NoErr]
               /\ \A j \in Inst \ {i} :
                    is_locked'[j] = is_locked[j] /\ fd'[j] = fd[j]]_vars

\* an instance has just been constructed on a directory whose lock file
\* another instance holds: it is unlocked
C13_ConstructedOnLockedDir ==
    \E i, j \in Inst :
        /\ i # j /\ Live(i) /\ Live(j) /\ lockfile[i] = lockfile[j]
        /\ pc[i] = "done" /\ last[i].op = "init"
        /\ ~is_locked[i]
        /\ Holds(j)

\* C14: the lock is held for the whole body of a `with` block.  While the
\* caller is inside a `with` block on an instance, between the calls the body
\* makes, the instance holds the lock (is_locked is true, the lock file is on
\* disk and is the one it created) and no other instance on that directory
\* holds it.
C14_HeldForWholeBody ==
    \A i \in Inst :
        (Live(i) /\ depth[i] > 0 /\ pc[i] = "idle")
            => /\ is_locked[i]
               /\ Exists(lockfile[i])
               /\ Holds(i)
               /\ \A j \in Inst \ {i} :
                    Live(j) /\ lockfile[j] = lockfile[i] => ~Holds(j)

\* C15: termination of acquire.  Every acquire() that is running (called
\* directly or by __enter__) ends, whatever the other instances do.  It goes
\* to sleep only after os.open failed with EEXIST, with a positive timeout
\* that has not passed, and every sleep it has finished took delay or more of
\* that timeout.
C15_AcquireTerminates ==
    /\ \A i \in Inst : Acquiring(i) ~> ~Acquiring(i)
    /\ [][\A i \in Inst :
            (Live(i) /\ pc[i] = "acq_try" /\ pc'[i] = "acq_sleep")
                => /\ OpenErrno(proc[i], lockfile[i]) = "EEXIST"
                   /\ timeout[i] > 0
                   /\ el[i] < timeout[i]
                   /\ sleeps[i] * delay[i] <= el[i]]_vars

\* an acquire() is in its second sleep and its timeout has passed: the next
\* pass of the loop is the last
C15_LastSleep ==
    \E i \in Inst :
        /\ Sleeping(i)
        /\ timeout[i] > 0
        /\ sleeps[i] = 2
        /\ el[i] >= timeout[i]

\* C16: scope entry on a locked instance.  __enter__ on an instance whose
\* is_locked is true ends at once, without a failure, without an os.open or
\* a sleep, changes neither the instance nor the filesystem, and the body
\* starts on that instance.  On an unlocked instance it starts one acquire(),
\* and ends when that acquire() ends, with its result: the body starts only
\* when it succeeded.
C16_EnterOnLocked ==
    [][\A i \in Inst :
        /\ (AtRest(i) /\ is_locked[i] /\ (call'[i] = "enter" \/ last'[i].op = "enter"))
              => /\ pc'[i] = "done"
                 /\ last'[i] = [op |-> "enter", err |-> NoErr]
                 /\ depth'[i] = depth[i] + 1
                 /\ tries'[i] = 0 /\ sleeps'[i] = 0
                 /\ UNCHANGED <<fsVars, objVars>>
        /\ (AtRest(i) /\ ~is_locked[i] /\ (call'[i] = "enter" \/ last'[i].op = "enter"))
              => /\ pc'[i] = "acq_try"
                 /\ call'[i] = "enter"
                 /\ el'[i] = 0 /\ tries'[i] = 0 /\ sleeps'[i] = 0
                 /\ depth'[i] = depth[i]
                 /\ UNCHANGED <<fsVars, objVars>>
        /\ (Live(i) /\ call[i] = "enter" /\ pc'[i] = "done" /\ life'[i] = "live")
              => /\ TryEnds(i)
                 /\ last'[i].op = "enter"
                 /\ last'[i].err = NoErr
                        <=> OpenErrno(proc[i], lockfile[i]) = ""
                 /\ depth'[i] = IF last'[i].err = NoErr THEN depth[i] + 1 ELSE depth[i]
                 /\ is_locked'[i] <=> last'[i].err = NoErr]_vars

\* a `with` block nested in another on the same instance has just been
\* entered, and the instance holds the lock
C16_EnteredAgain ==
    \E i \in Inst :
        /\ Live(i) /\ pc[i] = "done"
        /\ last[i] = [op |-> "enter", err |-> NoErr]
        /\ depth[i] = 2
        /\ Holds(i)

\* C17: release always ends unlocked.  When a call to release() has ended,
\* by a return or by a failure, is_locked is false.
C17_ReleaseEndsUnlocked ==
    \A i \in Inst :
        (Live(i) /\ pc[i] = "done" /\ last[i].op = "release")
            => ~is_locked[i]

\* the instances on lock file q whose is_locked is true
Flagged(q) == {i \in Inst : Live(i) /\ lockfile[i] = q /\ is_locked[i]}

\* C18 as stated: is_locked flags are mutually exclusive at step granularity.
\* In every state at most one instance on a directory has is_locked true.
C18_FlagsExclusive ==
    \A q \in Paths : Cardinality(Flagged(q)) <= 1

\* C18, amended: in every state at most one of the instances on a directory
\* whose is_locked is true is not in the last step of release(), between
\* os.unlink and is_locked = False; an instance in that step has deleted its
\* lock file.
C18_FlagsExclusiveAmended ==
    \A q \in Paths :
        /\ Cardinality({i \in Flagged(q) : pc[i] # "rel_clear"}) <= 1
        /\ \A i \in Flagged(q) : pc[i] = "rel_clear" => disk[q] # i

\* two instances on one directory have is_locked true: one has deleted its
\* lock file and not yet cleared is_locked, the other has acquired since
C18_TwoFlags ==
    \E i, j \in Inst :
        /\ i # j /\ Live(i) /\ Live(j) /\ lockfile[i] = lockfile[j]
        /\ is_locked[i] /\ pc[i] = "rel_clear"
        /\ is_locked[j] /\ pc[j] = "idle"
        /\ Holds(j)

\* C19: only the creator deletes.  Every step that removes a lock file is the
\* os.unlink of the release() of the instance that created it, whose
\* is_locked is true; and a release(), __exit__ or __del__ on an instance
\* whose is_locked is false ends without changing a file or a descriptor.
C19_OnlyCreatorDeletes ==
    [][/\ \A q \in Paths :
            (disk[q] # NoOne /\ disk'[q] = NoOne)
                => \E i \in Inst :
                    /\ Live(i) /\ lockfile[i] = q
                    /\ disk[q] = i
                    /\ is_locked[i]
                    /\ pc[i] = "rel_unlink" /\ pc'[i] = "rel_clear"
       /\ \A i \in Inst :
            (Live(i) /\ ~is_locked[i] /\ pc[i] \in {"idle", "exit"}
                  /\ pc'[i] = "done" /\ last'[i].op \in {"release", "exit", "del"})
                => UNCHANGED fsVars]_vars

\* an instance that did not hold the lock has just been collected, and the
\* lock file of the instance that holds the lock is still there
C19_OtherCollected ==
    \E i, j \in Inst :
        /\ i # j /\ ~Live(i) /\ Live(j)
        /\ pc[i] = "done" /\ last[i].op = "del"
        /\ pc[j] = "idle" /\ Holds(j)

\* C20: the lock is not reentrant.  acquire() called on an instance that
\* holds the lock goes into the loop; every os.open of it fails with EEXIST
\* on the instance's own lock file; it ends in the unavailable failure when
\* timeout is 0 and in the timeout failure otherwise; and all along the
\* instance holds the lock: is_locked is true, the handle is the same and
\* open, the lock file is its own.
C20_NotReentrant ==
    [][\A i \in Inst :
        /\ (AtRest(i) /\ Holds(i) /\ (call'[i] = "acquire" \/ last'[i].op = "acquire"))
              => /\ pc'[i] = "acq_try"
                 /\ call'[i] = "acquire"
                 /\ UNCHANGED <<fsVars, objVars>>
        /\ (Acquiring(i) /\ Holds(i) /\ life'[i] = "live")
              => /\ call[i] = "acquire"
                 /\ Holds(i)'
                 /\ fd'[i] = fd[i]
                 /\ disk' = disk
                 /\ pc[i] = "acq_try" => OpenErrno(proc[i], lockfile[i]) = "EEXIST"
                 /\ pc'[i] = "done"
                      => last'[i] = [op |-> "acquire",
                                     err |-> IF timeout[i] = 0 THEN Unavailable
                                             ELSE TimedOut]]_vars

\* an acquire() on an instance that holds the lock has just ended on its
\* timeout, and the instance still holds the lock
C20_TimedOutOnItself ==
    \E i \in Inst :
        /\ Live(i) /\ pc[i] = "done"
        /\ last[i] = [op |-> "acquire", err |-> TimedOut]
        /\ Holds(i)

====
